---- MODULE Spec2Model ----
(***************************************************************************)
(* State-machine model of the wallet page (src/app/page.tsx): the React    *)
(* state of the Home component, its event handlers and the asynchronous    *)
(* balance fetches.                                                        *)
(*                                                                         *)
(* Cryptographic primitives (PBKDF2, SLIP-0010 HMAC derivation, Ed25519,   *)
(* secp256k1, base58, EIP-55) are modelled symbolically: each is a free    *)
(* constructor, so two results are equal exactly when the primitive was    *)
(* applied to equal arguments.                                             *)
(*                                                                         *)
(* React semantics assumed: a handler reads the values bound by the last   *)
(* committed render (the `const [wallets, ...] = useState()` of that       *)
(* render); updates made inside an event handler are rendered before the   *)
(* next event is dispatched; updates made after an `await` are rendered    *)
(* in a later task, so an event may be dispatched in between.              *)
(***************************************************************************)
EXTENDS Integers, Sequences, FiniteSets, Bags, TLC

\* ------------------------------------------------------------------ bounds

\* Largest number of wallets a run derives.
MaxWallets == 2
\* Largest number of balance fetches in flight at once when the handlers are
\* called directly (the page allows one for each wallet id).
MaxFetches == 1

WalletIds == 1..MaxWallets

\* ---------------------------------------------------------- input domains

PhraseA == "abandon abandon abandon abandon abandon abandon abandon abandon abandon abandon abandon about"
PhraseB == "legal winner thank year wave sausage worth useful legal winner thank yellow"
\* Twelve wordlist words whose checksum does not validate.
PhraseBad == "abandon abandon abandon abandon abandon abandon abandon abandon abandon abandon abandon abandon"

\* What generateMnemonic() of bip39 can return: checksum-valid phrases.
GeneratedMnemonics == {PhraseA, PhraseB}
\* What the user can type into the input of the setup screen.
TypedStrings == {"", PhraseBad}

\* ------------------------------------------------------------- variables

VARIABLES
    mnemonic,         \* useState<string>("")
    inputMnemonic,    \* useState<string>("")
    wallets,          \* useState<Wallet[]>([])
    isDark,           \* useState<boolean>(true)
    showPrivateKey,   \* useState<{[key: number]: boolean}>({}), as the set of keys whose entry is true
    showMnemonic,     \* useState<boolean>(false)
    loadingBalances,  \* useState<{[key: number]: boolean}>({}), as the set of keys whose entry is true
    rendered,         \* the wallets and loadingBalances bound by the last committed render
    fetches           \* bag of the fetchWalletBalances calls suspended at their await

vars == <<mnemonic, inputMnemonic, wallets, isDark, showPrivateKey, showMnemonic,
          loadingBalances, rendered, fetches>>

\* ------------------------------------------------------------ derivation

\* `${seed.toString("hex")}` and Buffer.from(x).toString("hex"): the hex text of bytes.
Hex(bytes) == [hex |-> bytes]

\* mnemonicToSeedSync(mnemonic): PBKDF2 over the phrase as typed; the phrase is
\* not validated (validateMnemonic is never called), so it is total.
mnemonicToSeedSync(phrase) == [pbkdf2 |-> phrase]

\* `m/44'/${coin}'/${walletIndex}'/0'`: the segments, each hardened.
DerivationPath(coinType, walletIndex) ==
    [segments |-> <<44, coinType, walletIndex, 0>>,
     hardened |-> <<TRUE, TRUE, TRUE, TRUE>>]

SolanaCoinType == 501
EthereumCoinType == 60

solanaPath(walletIndex) == DerivationPath(SolanaCoinType, walletIndex)
\* Mutant: the Ethereum path is built with the Solana coin type.
ethereumPath_SolanaCoin(walletIndex) == DerivationPath(SolanaCoinType, walletIndex)
ethereumPath(walletIndex) == DerivationPath(EthereumCoinType, walletIndex)

\* derivePath(path, hexSeed).key of ed25519-hd-key (SLIP-0010 for Ed25519): the
\* key of the last level of the hardened derivation, a function of the decoded
\* seed and of the path. Both chains of createWallet call this one function.
derivePath(path, hexSeed) == [key |-> [slip10 |-> hexSeed.hex, path |-> path]]

\* Keypair.fromSecretKey(nacl.sign.keyPair.fromSeed(k).secretKey).publicKey.toBase58()
SolanaAddressOf(derivedSeed) == [base58 |-> [ed25519Public |-> derivedSeed]]

\* new ethers.Wallet(hexKey).address
EthereumAddressOf(hexKey) == [eip55 |-> [keccakLast20 |-> [secp256k1Public |-> hexKey.hex]]]

\* new ethers.Wallet(hexKey) throws when the scalar is zero or not below the
\* curve order. Which 32-byte strings those are is decided by HMAC-SHA512
\* output; the model lets one derived key be such a string.
ScalarOutOfRange(derivedSeed) ==
    /\ derivedSeed.slip10 = mnemonicToSeedSync(PhraseB)
    /\ derivedSeed.path.segments[3] = 1

\* ---------------------------------------------------------------- wallets

Undefined == [kind |-> "undefined", micro |-> 0]

\* Mutant: the id is the zero-based index.
NewWallet_IdFromZero(walletIndex, solanaAddress, ethereumAddress, solanaPrivateKey) ==
    [id |-> walletIndex,
     solanaAddress |-> solanaAddress,
     ethereumAddress |-> ethereumAddress,
     privateKey |-> solanaPrivateKey,
     solanaBalance |-> Undefined,
     ethereumBalance |-> Undefined]

\* const newWallet: Wallet = { id: walletIndex + 1, solanaAddress, ethereumAddress, privateKey }
NewWallet(walletIndex, solanaAddress, ethereumAddress, solanaPrivateKey) ==
    [id |-> walletIndex + 1,
     solanaAddress |-> solanaAddress,
     ethereumAddress |-> ethereumAddress,
     privateKey |-> solanaPrivateKey,
     solanaBalance |-> Undefined,
     ethereumBalance |-> Undefined]

\* wallets.find(w => w.id === walletId): the found wallets (none, or one while ids are unique)
FindWallet(list, walletId) == {list[i] : i \in {j \in 1..Len(list) : list[j].id = walletId}}

\* Mutant: the balances are set on every wallet.
AttachBalances_EveryWallet(prev, walletId, ethBalance, solBalance) ==
    [i \in 1..Len(prev) |->
        [prev[i] EXCEPT !.ethereumBalance = ethBalance, !.solanaBalance = solBalance]]

\* Mutant: filter instead of map, the other wallets are dropped.
AttachBalances_DropsOthers(prev, walletId, ethBalance, solBalance) ==
    LET kept == SelectSeq(prev, LAMBDA w : w.id = walletId)
    IN  [i \in 1..Len(kept) |->
            [kept[i] EXCEPT !.ethereumBalance = ethBalance, !.solanaBalance = solBalance]]

\* prev.map(w => w.id === walletId ? {...w, ethereumBalance, solanaBalance} : w)
AttachBalances(prev, walletId, ethBalance, solBalance) ==
    [i \in 1..Len(prev) |->
        IF prev[i].id = walletId
        THEN [prev[i] EXCEPT !.ethereumBalance = ethBalance, !.solanaBalance = solBalance]
        ELSE prev[i]]

\* --------------------------------------------------------------- balances

\* The string a balance function returns: "Error", "NaN", or a decimal with six
\* places kept as its count of millionths.
ErrorBalance == [kind |-> "Error", micro |-> 0]
NaNBalance == [kind |-> "NaN", micro |-> 0]
Amount(micro) == [kind |-> "amount", micro |-> micro]
ZeroBalance == Amount(0)

\* (units / unitsPerCoin).toFixed(6), rounding to the nearest millionth.
ToFixed6(units, unitsPerCoin) ==
    LET step == unitsPerCoin \div (10^6)
    IN  Amount((units + step \div 2) \div step)

\* Lamports per SOL: Math.pow(10, 9).
LamportsPerSol == 10^9
\* Math.pow(10, 18) wei per ETH; the model counts wei in units of 10^9 wei to
\* stay within TLC's integers, which leaves 10^9 units per ETH.
GweiPerEth == 10^9

\* What the provider can answer to a request. status: "rejected" when fetch()
\* or response.json() throws; otherwise the parsed body `data`:
\* hasResult (data.result is truthy), wellFormed (the result is a number the
\* conversion accepts), units (the amount it carries).
Reply(status, hasResult, wellFormed, units) ==
    [status |-> status, hasResult |-> hasResult, wellFormed |-> wellFormed, units |-> units]

NetworkError == Reply("rejected", FALSE, FALSE, 0)
NoResultBody == Reply("json", FALSE, FALSE, 0)
MalformedResult == Reply("json", TRUE, FALSE, 0)
ResultOf(units) == Reply("json", TRUE, TRUE, units)

\* One and a half coins and a little, in lamports / in units of 10^9 wei.
SampleUnits == 15 * 10^8 + 499

Replies == {NetworkError, NoResultBody, MalformedResult, ResultOf(SampleUnits)}

\* The answers used where only the session is of interest: a failure and a result.
SessionReplies == {NetworkError, ResultOf(SampleUnits)}

\* fetchEthereumBalance, from the reply on: BigInt(data.result) throws on a
\* malformed result and the catch returns "Error".
fetchEthereumBalance(reply) ==
    IF reply.status = "rejected" THEN ErrorBalance
    ELSE IF reply.hasResult
         THEN IF reply.wellFormed THEN ToFixed6(reply.units, GweiPerEth) ELSE ErrorBalance
         ELSE ZeroBalance

\* fetchSolanaBalance, from the reply on: a value that is no number divides to
\* NaN, and NaN.toFixed(6) is "NaN".
fetchSolanaBalance(reply) ==
    IF reply.status = "rejected" THEN ErrorBalance
    ELSE IF reply.hasResult
         THEN IF reply.wellFormed THEN ToFixed6(reply.units, LamportsPerSol) ELSE NaNBalance
         ELSE ZeroBalance

\* ------------------------------------------------------------------- Init

Init ==
    /\ mnemonic = ""
    /\ inputMnemonic = ""
    /\ wallets = <<>>
    /\ isDark = TRUE
    /\ showPrivateKey = {}
    /\ showMnemonic = FALSE
    /\ loadingBalances = {}
    /\ rendered = [wallets |-> <<>>, loadingBalances |-> {}]
    /\ fetches = EmptyBag

\* React renders the updates of an event handler before the next event.
Commit == rendered' = [wallets |-> wallets', loadingBalances |-> loadingBalances']

\* --------------------------------------------------------------- handlers

generateSecretPhrase ==
    \E newMnemonic \in GeneratedMnemonics :
        /\ mnemonic' = newMnemonic
        /\ inputMnemonic' = newMnemonic
        /\ wallets' = <<>>
        /\ UNCHANGED <<isDark, showPrivateKey, showMnemonic, loadingBalances, fetches>>
        /\ Commit

\* const mnemonicToUse = inputMnemonic || mnemonic
mnemonicToUse == IF inputMnemonic # "" THEN inputMnemonic ELSE mnemonic

\* The body of the try block of createWallet up to newWallet; `thrown` when
\* one of the calls throws.
DeriveWallet(phrase, walletIndex) ==
    LET seed == mnemonicToSeedSync(phrase)
        solanaDerivedSeed == derivePath(solanaPath(walletIndex), Hex(seed)).key
        solanaAddress == SolanaAddressOf(solanaDerivedSeed)
        solanaPrivateKey == Hex(solanaDerivedSeed)
        ethereumDerivedSeed == derivePath(ethereumPath(walletIndex), Hex(seed)).key
    IN  [thrown |-> ScalarOutOfRange(ethereumDerivedSeed),
         wallet |-> NewWallet(walletIndex, solanaAddress,
                              EthereumAddressOf(Hex(ethereumDerivedSeed)), solanaPrivateKey)]

\* Mutant: the early return on an empty mnemonic is missing.
createWallet_NoEarlyReturn ==
    /\ Len(rendered.wallets) < MaxWallets
    /\ UNCHANGED <<inputMnemonic, isDark, showPrivateKey, showMnemonic, loadingBalances, fetches>>
    /\ LET walletIndex == Len(rendered.wallets)
           derived == DeriveWallet(mnemonicToUse, walletIndex)
       IN  IF derived.thrown
           THEN UNCHANGED <<mnemonic, wallets, rendered>>
           ELSE /\ wallets' = Append(rendered.wallets, derived.wallet)
                /\ mnemonic' = mnemonicToUse
                /\ Commit

\* Mutant: the index is not taken from the collection, every wallet is
\* derived at index 0.
createWallet_FirstIndexOnly ==
    /\ Len(rendered.wallets) < MaxWallets
    /\ UNCHANGED <<inputMnemonic, isDark, showPrivateKey, showMnemonic, loadingBalances, fetches>>
    /\ IF mnemonicToUse = ""
       THEN UNCHANGED <<mnemonic, wallets, rendered>>
       ELSE LET derived == DeriveWallet(mnemonicToUse, 0)
            IN  IF derived.thrown
                THEN UNCHANGED <<mnemonic, wallets, rendered>>
                ELSE /\ wallets' = Append(rendered.wallets, derived.wallet)
                     /\ mnemonic' = mnemonicToUse
                     /\ Commit

\* Mutant: the phrase used is not stored as the mnemonic.
createWallet_NoSetMnemonic ==
    /\ Len(rendered.wallets) < MaxWallets
    /\ UNCHANGED <<inputMnemonic, isDark, showPrivateKey, showMnemonic, loadingBalances, fetches>>
    /\ IF mnemonicToUse = ""
       THEN UNCHANGED <<mnemonic, wallets, rendered>>
       ELSE LET walletIndex == Len(rendered.wallets)
                derived == DeriveWallet(mnemonicToUse, walletIndex)
            IN  IF derived.thrown
                THEN UNCHANGED <<mnemonic, wallets, rendered>>
                ELSE /\ wallets' = Append(rendered.wallets, derived.wallet)
                     /\ UNCHANGED mnemonic
                     /\ Commit

\* Mutant: the wallet is appended although the derivation threw.
createWallet_AppendsOnThrow ==
    /\ Len(rendered.wallets) < MaxWallets
    /\ UNCHANGED <<inputMnemonic, isDark, showPrivateKey, showMnemonic, loadingBalances, fetches>>
    /\ IF mnemonicToUse = ""
       THEN UNCHANGED <<mnemonic, wallets, rendered>>
       ELSE LET walletIndex == Len(rendered.wallets)
                derived == DeriveWallet(mnemonicToUse, walletIndex)
            IN  /\ wallets' = Append(rendered.wallets, derived.wallet)
                /\ mnemonic' = mnemonicToUse
                /\ Commit

createWallet ==
    /\ Len(rendered.wallets) < MaxWallets
    /\ UNCHANGED <<inputMnemonic, isDark, showPrivateKey, showMnemonic, loadingBalances, fetches>>
    /\ IF mnemonicToUse = ""
       THEN UNCHANGED <<mnemonic, wallets, rendered>>
       ELSE LET walletIndex == Len(rendered.wallets)
                derived == DeriveWallet(mnemonicToUse, walletIndex)
            IN  IF derived.thrown
                THEN UNCHANGED <<mnemonic, wallets, rendered>>
                ELSE /\ wallets' = Append(rendered.wallets, derived.wallet)
                     /\ mnemonic' = mnemonicToUse
                     /\ Commit

\* Mutant: the input field is not reset.
clearWallets_KeepsInput ==
    /\ wallets' = <<>>
    /\ mnemonic' = ""
    /\ showMnemonic' = FALSE
    /\ showPrivateKey' = {}
    /\ UNCHANGED <<inputMnemonic, isDark, loadingBalances, fetches>>
    /\ Commit

\* Mutant: the wallets are not reset.
clearWallets_KeepsWallets ==
    /\ mnemonic' = ""
    /\ inputMnemonic' = ""
    /\ showMnemonic' = FALSE
    /\ showPrivateKey' = {}
    /\ UNCHANGED <<wallets, isDark, loadingBalances, fetches>>
    /\ Commit

clearWallets ==
    /\ wallets' = <<>>
    /\ mnemonic' = ""
    /\ inputMnemonic' = ""
    /\ showMnemonic' = FALSE
    /\ showPrivateKey' = {}
    /\ UNCHANGED <<isDark, loadingBalances, fetches>>
    /\ Commit

\* setShowPrivateKey(prev => ({...prev, [walletId]: !prev[walletId]}))
togglePrivateKey(walletId) ==
    /\ showPrivateKey' = IF walletId \in showPrivateKey
                         THEN showPrivateKey \ {walletId}
                         ELSE showPrivateKey \cup {walletId}
    /\ UNCHANGED <<mnemonic, inputMnemonic, wallets, isDark, showMnemonic, loadingBalances, fetches>>
    /\ Commit

\* onChange={(e) => setInputMnemonic(e.target.value)}
setInputMnemonic(text) ==
    /\ inputMnemonic' = text
    /\ UNCHANGED <<mnemonic, wallets, isDark, showPrivateKey, showMnemonic, loadingBalances, fetches>>
    /\ Commit

\* onClick={() => setIsDark(!isDark)}
toggleDark ==
    /\ isDark' = ~isDark
    /\ UNCHANGED <<mnemonic, inputMnemonic, wallets, showPrivateKey, showMnemonic, loadingBalances, fetches>>
    /\ Commit

\* onClick={() => setShowMnemonic(!showMnemonic)}
toggleMnemonic ==
    /\ showMnemonic' = ~showMnemonic
    /\ UNCHANGED <<mnemonic, inputMnemonic, wallets, isDark, showPrivateKey, loadingBalances, fetches>>
    /\ Commit

\* ---------------------------------------------------------- balance fetch

\* fetchWalletBalances up to its await: the wallet found in the rendered list,
\* the loading flag set, the two requests sent with the wallet's addresses.
fetchWalletBalances(walletId) ==
    /\ UNCHANGED <<mnemonic, inputMnemonic, wallets, isDark, showPrivateKey, showMnemonic>>
    /\ IF FindWallet(rendered.wallets, walletId) = {}
       THEN UNCHANGED <<loadingBalances, fetches, rendered>>
       ELSE \E wallet \in FindWallet(rendered.wallets, walletId) :
                /\ loadingBalances' = loadingBalances \cup {walletId}
                /\ fetches' = fetches (+) SetToBag({[walletId |-> walletId,
                                                     ethereumAddress |-> wallet.ethereumAddress,
                                                     solanaAddress |-> wallet.solanaAddress]})
                /\ Commit

\* Mutant: the finally block is missing, the loading flag stays set.
fetchWalletBalancesResume_KeepsLoading(f, ethereumReply, solanaReply) ==
    /\ BagIn(f, fetches)
    /\ wallets' = AttachBalances(wallets, f.walletId,
                                 fetchEthereumBalance(ethereumReply),
                                 fetchSolanaBalance(solanaReply))
    /\ fetches' = fetches (-) SetToBag({f})
    /\ UNCHANGED <<mnemonic, inputMnemonic, isDark, showPrivateKey, showMnemonic,
                   loadingBalances, rendered>>

\* fetchWalletBalances from its await on: both requests are answered, Promise.all
\* resolves with the two balances, and the two functional updates run against
\* the current state; React renders them later. (Nothing of the page's state
\* is read or written between the two answers, so they are taken in one step.)
fetchWalletBalancesResume(f, ethereumReply, solanaReply) ==
    /\ BagIn(f, fetches)
    /\ wallets' = AttachBalances(wallets, f.walletId,
                                 fetchEthereumBalance(ethereumReply),
                                 fetchSolanaBalance(solanaReply))
    /\ loadingBalances' = loadingBalances \ {f.walletId}
    /\ fetches' = fetches (-) SetToBag({f})
    /\ UNCHANGED <<mnemonic, inputMnemonic, isDark, showPrivateKey, showMnemonic, rendered>>

\* React renders the updates made after the await.
render ==
    /\ rendered # [wallets |-> wallets, loadingBalances |-> loadingBalances]
    /\ rendered' = [wallets |-> wallets, loadingBalances |-> loadingBalances]
    /\ UNCHANGED <<mnemonic, inputMnemonic, wallets, isDark, showPrivateKey, showMnemonic,
                   loadingBalances, fetches>>

\* The asynchronous steps, with the provider answering from `replies`.
Resume(replies) ==
    \E f \in BagToSet(fetches), ethereumReply \in replies, solanaReply \in replies :
        fetchWalletBalancesResume(f, ethereumReply, solanaReply)

\* ------------------------------------ the handlers as the page offers them

\* {wallets.length === 0 ? <setup screen> : <wallet management screen>}
SetupScreen == Len(rendered.wallets) = 0

\* The input of the setup screen.
TypeMnemonic == SetupScreen /\ \E text \in TypedStrings : setInputMnemonic(text)

\* onClick={inputMnemonic ? createWallet : generateSecretPhrase}
ClickGenerateWallet ==
    /\ SetupScreen
    /\ IF inputMnemonic # "" THEN createWallet ELSE generateSecretPhrase

ClickAddWallet == ~SetupScreen /\ createWallet

ClickClearWallets == ~SetupScreen /\ clearWallets

ClickShowMnemonic == ~SetupScreen /\ toggleMnemonic

\* The eye button of the card of each wallet of the rendered list.
ClickEye == \E i \in 1..Len(rendered.wallets) : togglePrivateKey(rendered.wallets[i].id)

\* Mutant: the Refresh button is never disabled.
ClickRefresh_NeverDisabled ==
    \E i \in 1..Len(rendered.wallets) : fetchWalletBalances(rendered.wallets[i].id)

\* The Refresh button of each card: disabled={loadingBalances[wallet.id]}
ClickRefresh ==
    \E i \in 1..Len(rendered.wallets) :
        /\ rendered.wallets[i].id \notin rendered.loadingBalances
        /\ fetchWalletBalances(rendered.wallets[i].id)

\* The page: sessions and balance fetches, driven through the rendered screen.
\* The display toggles (theme, phrase and key visibility) read and write no
\* variable these handlers read; SpecPage and SpecApi have them.
Next ==
    \/ TypeMnemonic
    \/ ClickGenerateWallet
    \/ ClickAddWallet
    \/ ClickClearWallets
    \/ ClickRefresh
    \/ Resume(SessionReplies)
    \/ render

Spec == Init /\ [][Next]_vars

\* The page with the network answering: every request is eventually answered
\* or fails, and the event loop then runs the continuation of the call that
\* awaits it. The sessions are on generated phrases (what is typed has no
\* part in the life of a fetch).
NextLive ==
    \/ ClickGenerateWallet
    \/ ClickAddWallet
    \/ ClickClearWallets
    \/ ClickRefresh
    \/ Resume(SessionReplies)
    \/ render

\* Every call of fetchWalletBalances that can be suspended under NextLive.
Calls ==
    {[walletId |-> DeriveWallet(phrase, walletIndex).wallet.id,
      ethereumAddress |-> DeriveWallet(phrase, walletIndex).wallet.ethereumAddress,
      solanaAddress |-> DeriveWallet(phrase, walletIndex).wallet.solanaAddress] :
        phrase \in GeneratedMnemonics, walletIndex \in 0..(MaxWallets - 1)}

ResumeOf(f) ==
    \E ethereumReply \in SessionReplies, solanaReply \in SessionReplies :
        fetchWalletBalancesResume(f, ethereumReply, solanaReply)

SpecLive == Init /\ [][NextLive]_vars /\ \A f \in Calls : WF_vars(ResumeOf(f))

\* The whole page: Next and the display toggles.
NextPage ==
    \/ Next
    \/ ClickShowMnemonic
    \/ ClickEye
    \/ toggleDark

SpecPage == Init /\ [][NextPage]_vars

\* The page with every answer the provider can give, in one session.
NextProvider ==
    \/ ClickGenerateWallet
    \/ ClickAddWallet
    \/ ClickRefresh
    \/ Resume(Replies)
    \/ render

SpecProvider == Init /\ [][NextProvider]_vars

\* ------------------------------------------- the handlers called directly

\* The provider answers every request with a result.
ApiReplies == {ResultOf(SampleUnits)}

\* Every handler called in any state with any argument, as a caller of the
\* functions (not the rendered page) could.
NextApi ==
    \/ generateSecretPhrase
    \/ createWallet
    \/ clearWallets
    \/ \E walletId \in WalletIds : togglePrivateKey(walletId)
    \/ \E text \in TypedStrings : setInputMnemonic(text)
    \/ toggleDark
    \/ toggleMnemonic
    \/ \E walletId \in WalletIds :
            BagCardinality(fetches) < MaxFetches /\ fetchWalletBalances(walletId)
    \/ Resume(ApiReplies)
    \/ render

SpecApi == Init /\ [][NextApi]_vars

\* ================================================================ claims

\* The spec's session states: EMPTY has no mnemonic bound and no wallets,
\* ACTIVE has a mnemonic bound (inputMnemonic || mnemonic is not empty).
Bound == mnemonicToUse # ""
EmptySession == inputMnemonic = "" /\ mnemonic = "" /\ wallets = <<>>

\* A step that appends one wallet to the collection.
AddsWallet == Len(wallets') = Len(wallets) + 1

\* C2. Index monotonicity: in every state the ids of the collection are 1..N
\* in collection order, and every step that adds a wallet appends it with
\* id N+1 after the wallets already there, whose ids do not change.
C2_IndexMonotonicity ==
    /\ [](\A i \in 1..Len(wallets) : wallets[i].id = i)
    /\ [][AddsWallet =>
            /\ wallets'[Len(wallets')].id = Len(wallets) + 1
            /\ \A i \in 1..Len(wallets) : wallets'[i].id = wallets[i].id]_vars

\* Two wallets were added one after the other and each was refreshed.
C2_Witness ==
    /\ Len(wallets) = 2
    /\ wallets[1].id = 1 /\ wallets[2].id = 2
    /\ wallets[2].solanaBalance # Undefined

\* A step in which the suspended call f resumes (nothing else removes a call).
Resumes(f) == BagIn(f, fetches) /\ fetches' = fetches (-) SetToBag({f})

\* The positions of the collection `list` holding a wallet with this id.
PositionsOf(list, walletId) == {i \in 1..Len(list) : list[i].id = walletId}

\* The call f was started for a wallet that is in the collection now.
ForCurrentWallet(f) ==
    \E i \in PositionsOf(wallets, f.walletId) :
        /\ wallets[i].ethereumAddress = f.ethereumAddress
        /\ wallets[i].solanaAddress = f.solanaAddress

\* C1 (as claimed). A balance fetch started for wallet W writes to W only:
\* when it resumes, every wallet whose record changes is the wallet whose
\* addresses the fetch was started with, also after a clear and new wallets.
C1_FetchWritesOnlyItsWallet ==
    [][\A f \in BagToSet(fetches) :
          Resumes(f) =>
              \A i \in 1..Len(wallets) :
                  wallets'[i] # wallets[i] =>
                      /\ wallets[i].ethereumAddress = f.ethereumAddress
                      /\ wallets[i].solanaAddress = f.solanaAddress]_vars

\* bip39's validateMnemonic on the phrases of the model: word list and checksum.
ChecksumValid(phrase) == phrase \in {PhraseA, PhraseB}

\* C3 (as claimed). Invalid mnemonic rejection: while the bound mnemonic is a
\* non-empty string that is not checksum-valid, no step adds a wallet.
C3_InvalidMnemonicAddsNoWallet ==
    [][(Bound /\ ~ChecksumValid(mnemonicToUse)) => ~AddsWallet]_vars

\* The balances a resumed call can hold: the results of the two balance
\* functions on some pair of answers.
IsAttached(before, after) ==
    \E ethereumReply \in Replies, solanaReply \in Replies :
        after = [before EXCEPT !.ethereumBalance = fetchEthereumBalance(ethereumReply),
                               !.solanaBalance = fetchSolanaBalance(solanaReply)]

\* C4. Balance isolation: while two calls for two different wallets of the
\* current collection are in flight, the one that resumes sets the balances of
\* the wallet with its id and leaves every other wallet, and so the balances
\* the other call attached or will attach, as they are.
C4_BalanceIsolation ==
    [][\A f, g \in BagToSet(fetches) :
          (/\ f.walletId # g.walletId
           /\ ForCurrentWallet(f) /\ ForCurrentWallet(g)
           /\ Resumes(f)) =>
              /\ Len(wallets') = Len(wallets)
              /\ \A i \in 1..Len(wallets) :
                    IF wallets[i].id = f.walletId
                    THEN IsAttached(wallets[i], wallets'[i])
                    ELSE wallets'[i] = wallets[i]]_vars

\* The call for wallet 1 resumed and wrote its balances while the call for
\* wallet 2, in flight with it at the last render, is still suspended.
C4_Witness ==
    /\ Len(wallets) = 2
    /\ rendered.loadingBalances = {1, 2}
    /\ loadingBalances = {2}
    /\ wallets[1].ethereumBalance # Undefined
    /\ wallets[2].ethereumBalance = Undefined
    /\ BagCardinality(fetches) = 1

\* C5. Clear resets state: clearWallets leads to the EMPTY session from any
\* state; in the EMPTY session createWallet changes nothing; and the session
\* stays EMPTY until a phrase is generated or typed.
C5_ClearResetsState ==
    /\ [][clearWallets => EmptySession']_vars
    /\ [][(EmptySession /\ createWallet) => UNCHANGED vars]_vars
    /\ [][(EmptySession /\ ~EmptySession') =>
            \/ generateSecretPhrase
            \/ \E text \in TypedStrings \ {""} : setInputMnemonic(text)]_vars

\* The session is EMPTY while a balance fetch started before the clear is
\* still in flight.
C5_Witness == EmptySession /\ fetches # EmptyBag /\ loadingBalances # {}

\* A provider failure: the request is rejected, or its body has no usable result.
IsFailure(reply) == reply.status = "rejected" \/ ~reply.hasResult \/ ~reply.wellFormed

\* C6 (as claimed). Provider failure as sentinel: when a call resumes after a
\* failed request, the wallet's balance for that chain becomes "Error", never
\* a numeric balance.
C6_FailureGivesError ==
    [][\A f \in BagToSet(fetches), ethereumReply \in Replies, solanaReply \in Replies :
          fetchWalletBalancesResume(f, ethereumReply, solanaReply) =>
              \A i \in PositionsOf(wallets', f.walletId) :
                  /\ IsFailure(ethereumReply) => wallets'[i].ethereumBalance = ErrorBalance
                  /\ IsFailure(solanaReply) => wallets'[i].solanaBalance = ErrorBalance]_vars

\* C7. Session state machine: every state is EMPTY or ACTIVE, that is, the
\* collection is empty while no mnemonic is bound, and the state `mnemonic`
\* is not empty while the collection holds a wallet.
C7_SessionStates ==
    /\ ~Bound => wallets = <<>>
    /\ wallets # <<>> => mnemonic # ""

\* A second session: a typed phrase is bound and holds a wallet while a
\* balance fetch of the cleared session is still in flight.
C7_Witness ==
    /\ wallets # <<>>
    /\ mnemonic = PhraseBad
    /\ \E f \in BagToSet(fetches) : ~ForCurrentWallet(f)

\* C8. addWallet without a mnemonic is a silent no-op: where inputMnemonic
\* and mnemonic are both empty, a call of createWallet changes no variable.
C8_NoMnemonicNoOp ==
    [][(inputMnemonic = "" /\ mnemonic = "" /\ createWallet) => UNCHANGED vars]_vars

\* No mnemonic is bound, createWallet can be called, and flags are set that
\* the call must leave alone.
C8_Witness ==
    /\ inputMnemonic = "" /\ mnemonic = ""
    /\ Len(rendered.wallets) < MaxWallets
    /\ ~isDark /\ showPrivateKey # {} /\ loadingBalances # {}

\* C9. attachBalances frame: a resuming call changes at most the two balance
\* fields of the wallet with its id; that wallet's id, addresses and private
\* key, every other wallet, the order and length of the collection and the
\* mnemonic stay; with no wallet of that id the collection stays as it is.
C9_AttachBalancesFrame ==
    [][\A f \in BagToSet(fetches) :
          Resumes(f) =>
              /\ Len(wallets') = Len(wallets)
              /\ \A i \in 1..Len(wallets) :
                    /\ wallets'[i].id = wallets[i].id
                    /\ wallets'[i].solanaAddress = wallets[i].solanaAddress
                    /\ wallets'[i].ethereumAddress = wallets[i].ethereumAddress
                    /\ wallets'[i].privateKey = wallets[i].privateKey
                    /\ wallets[i].id # f.walletId => wallets'[i] = wallets[i]
              /\ PositionsOf(wallets, f.walletId) = {} => wallets' = wallets
              /\ mnemonic' = mnemonic
              /\ inputMnemonic' = inputMnemonic]_vars

\* A call resumed for wallet 2 of two: it has balances, wallet 1 has none.
C9_Witness ==
    /\ Len(wallets) = 2
    /\ wallets[2].ethereumBalance # Undefined
    /\ wallets[2].solanaBalance # Undefined
    /\ wallets[1].ethereumBalance = Undefined
    /\ wallets[1].solanaBalance = Undefined
    /\ fetches = EmptyBag

\* C10 (as claimed). Balance fetches and derivation do not interfere: a step
\* that adds a wallet keeps every wallet of the collection as it is, with the
\* balances a resumed fetch attached to it.
C10_AddWalletKeepsBalances ==
    [][AddsWallet => \A i \in 1..Len(wallets) : wallets'[i] = wallets[i]]_vars

\* The id, addresses and private key of a wallet: what derivation gives it.
Identity(w) ==
    [id |-> w.id, solanaAddress |-> w.solanaAddress,
     ethereumAddress |-> w.ethereumAddress, privateKey |-> w.privateKey]

\* C11. Determinism: in every state of every run of the page, the wallet at
\* position i has the id, addresses and private key that derivation gives for
\* the bound mnemonic and index i-1, a function of the two alone; so two
\* sessions started with the same mnemonic hold identical wallets at every
\* position, whatever fetches, earlier sessions and clears each run had.
C11_Determinism ==
    \A i \in 1..Len(wallets) :
        Identity(wallets[i]) = Identity(DeriveWallet(mnemonic, i - 1).wallet)

\* A second session holds two wallets, the second one refreshed, while a
\* fetch of the cleared first session is still in flight.
C11_Witness ==
    /\ Len(wallets) = 2
    /\ wallets[2].ethereumBalance # Undefined
    /\ \E f \in BagToSet(fetches) : ~ForCurrentWallet(f)

\* C12 (as claimed). startSession: the button of the setup screen starts a
\* session; with an empty input it binds a generated mnemonic, with a typed
\* input it binds that string as typed, and either way the collection is
\* empty after the step, also when the button is clicked again.
C12_StartSessionEmptiesWallets ==
    [][ClickGenerateWallet =>
          /\ inputMnemonic = "" => mnemonic' \in GeneratedMnemonics
          /\ inputMnemonic # "" => mnemonic' = inputMnemonic
          /\ wallets' = <<>>]_vars

\* The key material a wallet's Solana address was made from, and the key
\* material its Ethereum address was made from.
Ed25519Material(w) == w.solanaAddress.base58.ed25519Public
Secp256k1Material(w) == w.ethereumAddress.eip55.keccakLast20.secp256k1Public

\* C13. Chain independence of paths: the wallet with id k is derived at
\* m/44'/501'/(k-1)'/0' for the Ed25519 chain and at m/44'/60'/(k-1)'/0' for
\* the secp256k1 chain, every segment hardened, the two paths differ, and its
\* privateKey is the hex of the Ed25519 key material, never of the secp256k1
\* material.
C13_ChainIndependence ==
    \A i \in 1..Len(wallets) :
        LET w == wallets[i]
            k == w.id
        IN  /\ Ed25519Material(w).path.segments = <<44, 501, k - 1, 0>>
            /\ Secp256k1Material(w).path.segments = <<44, 60, k - 1, 0>>
            /\ \A n \in 1..4 : /\ Ed25519Material(w).path.hardened[n]
                               /\ Secp256k1Material(w).path.hardened[n]
            /\ Ed25519Material(w).path # Secp256k1Material(w).path
            /\ w.privateKey = Hex(Ed25519Material(w))
            /\ w.privateKey # Hex(Secp256k1Material(w))

\* The second wallet of a session, derived at index 1 on both chains.
C13_Witness ==
    /\ Len(wallets) = 2
    /\ wallets[2].id = 2
    /\ Ed25519Material(wallets[2]).path.segments[3] = 1
    /\ Secp256k1Material(wallets[2]).path.segments[3] = 1

\* The published vectors, as what they are the value of. Solana wallets
\* (SLIP-0010 Ed25519) publish the address at m/44'/501'/0'/0'; Ethereum
\* wallets (BIP-32 over secp256k1) publish the address at m/44'/60'/0'/0/0,
\* whose last two segments are not hardened.
Bip32Secp256k1(seed, path) == [bip32 |-> seed, path |-> path]
StandardSolanaPath ==
    [segments |-> <<44, 501, 0, 0>>, hardened |-> <<TRUE, TRUE, TRUE, TRUE>>]
StandardEthereumPath ==
    [segments |-> <<44, 60, 0, 0, 0>>, hardened |-> <<TRUE, TRUE, TRUE, FALSE, FALSE>>]
KnownVectorSolana ==
    SolanaAddressOf([slip10 |-> mnemonicToSeedSync(PhraseA), path |-> StandardSolanaPath])
KnownVectorEthereum ==
    EthereumAddressOf(Hex(Bip32Secp256k1(mnemonicToSeedSync(PhraseA), StandardEthereumPath)))

\* C14 (as claimed). Known vector: in a session bound to the phrase
\* "abandon ... about", the first wallet holds the published test-vector
\* address of each chain.
C14_KnownVector ==
    (mnemonic = PhraseA /\ Len(wallets) >= 1) =>
        /\ wallets[1].solanaAddress = KnownVectorSolana
        /\ wallets[1].ethereumAddress = KnownVectorEthereum

\* The Solana half of C14 alone.
C14_KnownVectorSolana ==
    (mnemonic = PhraseA /\ Len(wallets) >= 1) =>
        wallets[1].solanaAddress = KnownVectorSolana

\* C15 (as claimed). addWallet appends only: a call of createWallet that
\* succeeds leaves a collection one longer, whose earlier positions hold the
\* wallets as they were, balance fields included, and whose last position
\* holds a wallet with no balance field set.
C15_AppendOnly ==
    [][(createWallet /\ AddsWallet) =>
          /\ Len(wallets') = Len(wallets) + 1
          /\ SubSeq(wallets', 1, Len(wallets)) = wallets
          /\ wallets'[Len(wallets')].solanaBalance = Undefined
          /\ wallets'[Len(wallets')].ethereumBalance = Undefined]_vars

\* The parts of C15 that do not depend on what the call read: one wallet
\* more, the new one without balances, the earlier ones with their identity.
C15_AppendKeepsIdentity ==
    [][(createWallet /\ AddsWallet) =>
          /\ \A i \in 1..Len(wallets) : Identity(wallets'[i]) = Identity(wallets[i])
          /\ wallets'[Len(wallets')].solanaBalance = Undefined
          /\ wallets'[Len(wallets')].ethereumBalance = Undefined]_vars

\* C16 (as claimed). clearAll resets every transient flag: right after
\* clearWallets the phrase is hidden, no private key is shown and no wallet
\* id is marked as loading.
C16_ClearResetsFlags ==
    [][clearWallets =>
          /\ showMnemonic' = FALSE
          /\ showPrivateKey' = {}
          /\ loadingBalances' = {}]_vars

\* The flags clearWallets does reset.
C16_ClearResetsShownFlags ==
    [][clearWallets => (showMnemonic' = FALSE /\ showPrivateKey' = {})]_vars

\* The phrase a wallet's keys were derived from, if both chains used the
\* seed of one phrase.
DerivedFrom(w, phrase) ==
    /\ Ed25519Material(w).slip10 = mnemonicToSeedSync(phrase)
    /\ Secp256k1Material(w).slip10 = mnemonicToSeedSync(phrase)

\* C17. Single mnemonic per collection: in every state of the page all
\* wallets of the collection were derived from the state `mnemonic`, which is
\* also the phrase createWallet would use next; and from one state with
\* wallets to the next the phrase createWallet uses does not change.
C17_SingleMnemonic ==
    /\ [](/\ \A i \in 1..Len(wallets) : DerivedFrom(wallets[i], mnemonic)
          /\ wallets # <<>> => (mnemonicToUse = mnemonic /\ mnemonic # ""))
    /\ [][(wallets # <<>> /\ wallets' # <<>>) => mnemonicToUse' = mnemonicToUse]_vars

\* A session on a typed phrase holds two wallets, the first one refreshed.
C17_Witness ==
    /\ Len(wallets) = 2
    /\ mnemonic = PhraseBad
    /\ inputMnemonic = PhraseBad
    /\ wallets[1].solanaBalance # Undefined

\* A call of createWallet in this state reaches the derivation and one of
\* its steps throws.
Throws ==
    /\ mnemonicToUse # ""
    /\ DeriveWallet(mnemonicToUse, Len(rendered.wallets)).thrown

\* C18. State unchanged on derivation failure: in a state where the
\* derivation throws, no step appends a wallet and a call of createWallet
\* leaves the collection and the mnemonic as they are; and every step that
\* does append a wallet gives it the id count + 1.
C18_FailureChangesNothing ==
    /\ [][Throws => /\ ~AddsWallet
                    /\ createWallet => UNCHANGED <<wallets, mnemonic, inputMnemonic>>]_vars
    /\ [][AddsWallet => wallets'[Len(wallets')].id = Len(wallets) + 1]_vars

\* The page shows one refreshed wallet of a session whose next derivation
\* throws: Add Wallet can be clicked and fails.
C18_Witness ==
    /\ Throws
    /\ ~SetupScreen
    /\ Len(wallets) = 1
    /\ wallets[1].ethereumBalance # Undefined

\* The wallet ids for which a call of fetchWalletBalances is suspended.
InFlightIds == {f.walletId : f \in BagToSet(fetches)}

\* C19. Loading flag matches in-flight fetches: in every state of the page
\* the ids marked as loading are the ids with a fetch in flight, and no id
\* has two fetches in flight, also after a clear and a new wallet of that id.
C19_LoadingMatchesFetches ==
    /\ loadingBalances = InFlightIds
    /\ \A f \in BagToSet(fetches) : CopiesIn(f, fetches) = 1
    /\ \A f, g \in BagToSet(fetches) : f.walletId = g.walletId => f = g

\* A fetch of a cleared session is in flight for id 1 beside a fetch of the
\* current session, whose own wallet 1 is shown as loading.
C19_Witness ==
    /\ BagCardinality(fetches) = 2
    /\ \E f \in BagToSet(fetches) :
          /\ ~ForCurrentWallet(f)
          /\ PositionsOf(wallets, f.walletId) # {}
          /\ f.walletId \in rendered.loadingBalances

\* Every suspended call is one of Calls: the fairness of SpecLive covers it.
C20_CallsAreFair == \A f \in BagToSet(fetches) : f \in Calls

\* C20. Loading eventually ends: with every request eventually answered or
\* failed, a suspended call of fetchWalletBalances eventually resumes and the
\* id it marked as loading is then not marked, whatever the answers were and
\* whether or not the collection was cleared meanwhile.
C20_LoadingEnds ==
    \A f \in Calls :
        BagIn(f, fetches) ~> (~BagIn(f, fetches) /\ f.walletId \notin loadingBalances)

\* A call resumed after the collection had been cleared: nothing is marked
\* as loading any more, which the page has not rendered yet.
C20_Witness ==
    /\ wallets = <<>>
    /\ fetches = EmptyBag
    /\ loadingBalances = {}
    /\ rendered.loadingBalances # {}

====
